---- MODULE Spec2Model ----
(***************************************************************************)
(* Model of chsurvey/interactive-chatbot.                                  *)
(*                                                                         *)
(*   src/server.py  ChatServer: the registry `users` and the per           *)
(*                  connection coroutine `handler`, which registers,       *)
(*                  relays every inbound message with `broadcast` and      *)
(*                  unregisters in a `finally` block.                      *)
(*   src/client.py  GPTClient: `on_message` (inbound path) and             *)
(*                  `_talk_loop` (periodic decision path).                 *)
(*                                                                         *)
(* asyncio runs coroutines on one thread: a coroutine runs without         *)
(* interruption from one `await` that suspends to the next.  Every action  *)
(* below is one such uninterrupted run.                                    *)
(*                                                                         *)
(* Specifications:                                                         *)
(*   Spec       the relay as deployed: one handler per connection          *)
(*   ApiSpec    the ChatServer methods called directly, one at a time      *)
(*   AgentSpec  the GPT agent: recv_loop/on_message and _talk_loop         *)
(*   AgentFair  AgentSpec with the event loop's progress guarantees        *)
(***************************************************************************)
EXTENDS Integers, Sequences, FiniteSets, TLC

\* ------------------------------------------------------------------ bounds
NumConns == 3      \* websocket connections that ever reach the server
MaxMsgs == 2       \* inbound messages the server reads, in total
MaxUserMsgs == 2   \* inbound messages the agent reads

\* ------------------------------------------------------- program constants
\* Time is counted in tenths of a second.
SleepTicks == 3    \* asyncio.sleep(0.3)
IdleTicks == 20    \* idle_seconds_before_talk = 2.0

\* Connections.  The registry is a Python set of websocket objects; a set is
\* iterated in the order of its hash-table slots.  No resize happens below
\* five entries, so every connection keeps one slot: connections are
\* numbered by that slot.
Conns == 1..NumConns

VARIABLES
    \* ---- ChatServer
    users,      \* ChatServer.users
    hpc,        \* per connection: where its handler coroutine stands
    conn,       \* per connection: state of the transport
    it,         \* per handler: the set iterator of its running broadcast
    snap,       \* per handler: users when its running broadcast began
    received,   \* per recipient and sender: the messages user.send() wrote, in order
    exc,        \* per handler: the exception it ended with
    nread,      \* per handler: number of inbound messages it has read
    lastCall,   \* the last direct call of a ChatServer method, and its outcome
    \* ---- GPTClient
    message_history,        \* self.message_history
    pending_sentence_type,  \* self.pending_sentence_type
    since_last_user,        \* loop.time() - self._last_user_ts, capped at IdleTicks
    sleep_left,             \* time left of _talk_loop's asyncio.sleep(0.3)
    rpc,                    \* where recv_loop / on_message stands
    tpc,                    \* where _talk_loop stands
    sentence_type,          \* _talk_loop's local sentence_type
    reply,                  \* _talk_loop's local reply
    ws,                     \* state of the agent's websocket
    sent,                   \* the replies ws.send() wrote
    fire_len,               \* len(message_history) when _talk_loop issued talk
    early,                  \* per user Turn: appended inside the idle window of the one before
    classified              \* the classification of the newest user Turn, and what became of it

serverVars == <<users, hpc, conn, it, snap, received, exc, nread>>
agentVars == <<message_history, pending_sentence_type, since_last_user, sleep_left,
               rpc, tpc, sentence_type, reply, ws, sent, fire_len, early, classified>>
vars == <<serverVars, lastCall, agentVars>>

\* ------------------------------------------------------- ChatServer (pure)

\* ChatServer.register: self.users.add(websocket)
register(U, c) == U \cup {c}

\* ChatServer.unregister: self.users.remove(websocket); set.remove raises
\* KeyError when the element is absent and leaves the set as it is.
unregister(U, c) ==
    IF c \in U THEN [raised |-> "none", users |-> U \ {c}]
               ELSE [raised |-> "KeyError", users |-> U]

\* The set iterator of `for user in self.users`: it remembers the size of
\* the set when it was made and the slot it has scanned up to.
NewIter(U) == [used |-> Cardinality(U), pos |-> 0]

\* next(iterator): "Set changed size during iteration" when the size
\* differs from the remembered one; otherwise the entry in the first
\* occupied slot after pos, or exhaustion.
IterRaises(U, i) == i.used # Cardinality(U)
IterRest(U, i) == {u \in U : u > i.pos}
Min(S) == CHOOSE x \in S : \A y \in S : x <= y

\* The recipients broadcast still has to send to: the loop body skips the
\* sender without awaiting.
Targets(U, i, sender) == IterRest(U, i) \ {sender}

RECURSIVE SumTo(_, _)
SumTo(f, n) == IF n = 0 THEN 0 ELSE f[n] + SumTo(f, n - 1)
TotalRead == SumTo(nread, NumConns)

NoCall == [op |-> "none", arg |-> 0, before |-> {}, raised |-> "none"]

ServerInit ==
    /\ users = {}
    /\ hpc = [c \in Conns |-> "init"]
    /\ conn = [c \in Conns |-> "open"]
    /\ it = [c \in Conns |-> NewIter({})]
    /\ snap = [c \in Conns |-> {}]
    /\ received = [r \in Conns |-> [s \in Conns |-> <<>>]]
    /\ exc = [c \in Conns |-> "none"]
    /\ nread = [c \in Conns |-> 0]
    /\ lastCall = NoCall

\* ------------------------------------------------------ ChatServer.handler

\* HandlerExit with the unregister after the loop instead of in `finally`:
\* it is skipped when an exception leaves the loop.
HandlerExitSkipsUnregister(c, e) ==
    /\ hpc' = [hpc EXCEPT ![c] = "done"]
    /\ conn' = [conn EXCEPT ![c] = "closed"]
    /\ users' = IF e = "none" THEN unregister(users, c).users ELSE users
    /\ exc' = [exc EXCEPT ![c] = e]
    /\ it' = [it EXCEPT ![c] = NewIter({})]
    /\ snap' = [snap EXCEPT ![c] = {}]

\* The handler leaves the try block with exception e ("none": the stream
\* ended).  finally: await self.unregister(websocket).  A KeyError raised
\* there replaces e.  websockets closes the transport when the handler ends.
\* The iterator and the snapshot of a broadcast that is over are reset.
HandlerExit(c, e) ==
    LET r == unregister(users, c) IN
    /\ hpc' = [hpc EXCEPT ![c] = "done"]
    /\ conn' = [conn EXCEPT ![c] = "closed"]
    /\ users' = r.users
    /\ exc' = [exc EXCEPT ![c] = IF r.raised = "none" THEN e ELSE r.raised]
    /\ it' = [it EXCEPT ![c] = NewIter({})]
    /\ snap' = [snap EXCEPT ![c] = {}]

\* A new connection: websockets.serve starts handler(websocket), which runs
\* `await self.register(websocket)` (no suspension inside) and then waits
\* for the first inbound message.
Connect(c) ==
    /\ hpc[c] = "init"
    /\ users' = register(users, c)
    /\ hpc' = [hpc EXCEPT ![c] = "recv"]
    /\ UNCHANGED <<conn, it, snap, received, exc, nread, lastCall, agentVars>>

\* The transport of c closes (the peer went away).  The handler learns of
\* it when it next reads.
Close(c) ==
    /\ hpc[c] \in {"recv", "bcast"}
    /\ conn[c] = "open"
    /\ conn' = [conn EXCEPT ![c] = "closed"]
    /\ UNCHANGED <<users, hpc, it, snap, received, exc, nread, lastCall, agentVars>>

\* ChatServer.broadcast, from iterator state i up to its next suspension:
\*     for user in self.users:
\*         if user != sender:
\*             await user.send(message)
\* next() raises RuntimeError when users changed size; user.send raises
\* ConnectionClosed when the recipient's transport is closed.  Neither is
\* caught, here or in handler, so both end the handler through `finally`.
\* When the iterator is exhausted broadcast returns and the handler waits
\* for the next inbound message.  S is users when the broadcast began.
\* Message m of sender c is the m-th inbound message its handler read.
RunBroadcast(c, i, m, S) ==
    IF IterRaises(users, i)
      THEN /\ HandlerExit(c, "RuntimeError")
           /\ UNCHANGED received
      ELSE IF Targets(users, i, c) = {}
        THEN /\ hpc' = [hpc EXCEPT ![c] = "recv"]
             /\ it' = [it EXCEPT ![c] = NewIter({})]
             /\ snap' = [snap EXCEPT ![c] = {}]
             /\ UNCHANGED <<users, conn, received, exc>>
        ELSE LET u == Min(Targets(users, i, c)) IN
             IF conn[u] = "open"
               THEN /\ received' = [received EXCEPT ![u][c] = Append(@, m)]
                    /\ it' = [it EXCEPT ![c] = [i EXCEPT !.pos = u]]
                    /\ snap' = [snap EXCEPT ![c] = S]
                    /\ hpc' = [hpc EXCEPT ![c] = "bcast"]
                    /\ UNCHANGED <<users, conn, exc>>
               ELSE /\ HandlerExit(c, "ConnectionClosed")
                    /\ UNCHANGED received

\* Recv of a handler that starts broadcast without awaiting it, so that the
\* next inbound message is read while the broadcast before it is suspended
\* at a send.  One schedule of what follows: the new broadcast makes all its
\* sends, then the suspended one makes those it had left.
RecvWithoutAwait(c) ==
    /\ hpc[c] \in {"recv", "bcast"}
    /\ conn[c] = "open"
    /\ TotalRead < MaxMsgs
    /\ nread' = [nread EXCEPT ![c] = @ + 1]
    /\ IF /\ hpc[c] = "bcast"
          /\ ~IterRaises(users, it[c])
          /\ \A u \in users \ {c} : conn[u] = "open"
         THEN /\ received' =
                    [u \in Conns |->
                       IF u \in Targets(users, it[c], c)
                         THEN [received[u] EXCEPT ![c] = @ \o <<nread[c] + 1, nread[c]>>]
                         ELSE IF u \in users \ {c}
                           THEN [received[u] EXCEPT ![c] = Append(@, nread[c] + 1)]
                           ELSE received[u]]
              /\ hpc' = [hpc EXCEPT ![c] = "recv"]
              /\ it' = [it EXCEPT ![c] = NewIter({})]
              /\ snap' = [snap EXCEPT ![c] = {}]
              /\ UNCHANGED <<users, conn, exc>>
         ELSE /\ hpc[c] = "recv"
              /\ RunBroadcast(c, NewIter(users), nread[c] + 1, users)
    /\ UNCHANGED <<lastCall, agentVars>>

\* `async for message in websocket` yields the next inbound message and the
\* handler calls broadcast(message, sender=websocket), which makes its
\* iterator and runs to the first send.
Recv(c) ==
    /\ hpc[c] = "recv"
    /\ conn[c] = "open"
    /\ TotalRead < MaxMsgs
    /\ nread' = [nread EXCEPT ![c] = @ + 1]
    /\ RunBroadcast(c, NewIter(users), nread[c] + 1, users)
    /\ UNCHANGED <<lastCall, agentVars>>

\* A suspended `await user.send(message)` returns and the loop goes on.
Resume(c) ==
    /\ hpc[c] = "bcast"
    /\ RunBroadcast(c, it[c], nread[c], snap[c])
    /\ UNCHANGED <<nread, lastCall, agentVars>>

\* `async for` on a closed transport: it ends the loop when the close was
\* clean and raises ConnectionClosedError when it was not.
StreamEnd(c) ==
    /\ hpc[c] = "recv"
    /\ conn[c] # "open"
    /\ \E e \in {"none", "ConnectionClosedError"} : HandlerExit(c, e)
    /\ UNCHANGED <<received, nread, lastCall, agentVars>>

\* ---------------------------------------- ChatServer methods called directly

\* await server.register(c)
ApiRegister(c) ==
    /\ users' = register(users, c)
    /\ lastCall' = [op |-> "register", arg |-> c, before |-> users, raised |-> "none"]
    /\ UNCHANGED <<hpc, conn, it, snap, received, exc, nread, agentVars>>

\* await server.unregister(c)
ApiUnregister(c) ==
    LET r == unregister(users, c) IN
    /\ users' = r.users
    /\ lastCall' = [op |-> "unregister", arg |-> c, before |-> users, raised |-> r.raised]
    /\ UNCHANGED <<hpc, conn, it, snap, received, exc, nread, agentVars>>

\* await server.broadcast(m, sender=s) with connections whose send returns
\* at once: the loop visits every member of users and skips s.
ApiBroadcast(s) ==
    /\ TotalRead < MaxMsgs
    /\ nread' = [nread EXCEPT ![s] = @ + 1]
    /\ received' = [r \in Conns |->
                      IF r \in users \ {s}
                        THEN [received[r] EXCEPT ![s] = Append(@, nread[s] + 1)]
                        ELSE received[r]]
    /\ lastCall' = [op |-> "broadcast", arg |-> s, before |-> users, raised |-> "none"]
    /\ UNCHANGED <<users, hpc, conn, it, snap, exc, agentVars>>

\* ---------------------------------------------------------------- GPTClient

\* GPTClient.SENTENCE_TYPES (its keys)
SENTENCE_TYPES == {"ack", "op", "new", "bye"}

\* What the classification request can come back with: one of the keys,
\* some other text, or an exception.
RawOutcomes == SENTENCE_TYPES \cup {"other", "raises"}

\* _classify_intent without its fallbacks: nothing for a request that
\* raises, and the key as it came when it is not in SENTENCE_TYPES.
ClassifyIntentNoFallback(raw) ==
    IF raw = "raises" THEN "None" ELSE raw

\* GPTClient._classify_intent: an exception gives "ack", and so does a key
\* that is not in SENTENCE_TYPES.
ClassifyIntent(raw) ==
    LET key == IF raw = "raises" THEN "ack" ELSE raw
    IN IF key \notin SENTENCE_TYPES THEN "ack" ELSE key

\* GPTClient._generate_reply: the completion's text (whatever the sentence
\* type asked for), or "[GPT error] ..." when the request raises.
GenerateReply(st, outcome) ==
    IF outcome = "raises" THEN "[GPT error]" ELSE "text"

NoReply == "-"

\* The entries of message_history.
SystemTurn == [role |-> "system", content |-> "persona"]
UserTurn(k) == [role |-> "user", content |-> ToString(k)]
AssistantTurn(r) == [role |-> "assistant", content |-> r]

Roles(h, role) == {i \in 1..Len(h) : h[i].role = role}
NumUser == Cardinality(Roles(message_history, "user"))
NumAssistant == Cardinality(Roles(message_history, "assistant"))
LastRole == message_history[Len(message_history)].role

\* The record kept of the newest user Turn's classification: what the
\* request came back with (raw), what _classify_intent returned (key), and
\* whether the stored type is still pending, was taken by _talk_loop to
\* reply, or was discarded by it.  "?" while the classifier runs.
NoClass == [raw |-> "-", key |-> "-", fate |-> "-"]
InFlight == [raw |-> "?", key |-> "?", fate |-> "?"]
Fate(f) == IF classified.key \in SENTENCE_TYPES
             THEN [classified EXCEPT !.fate = f] ELSE classified

\* GPTClient.__init__.  loop.time() is the monotonic clock, far above
\* idle_seconds_before_talk, and _last_user_ts starts at 0.0.
AgentInit ==
    /\ message_history = <<SystemTurn>>
    /\ pending_sentence_type = "None"
    /\ since_last_user = IdleTicks
    /\ sleep_left = SleepTicks
    /\ rpc = "wait"
    /\ tpc = "sleep"
    /\ sentence_type = "-"
    /\ reply = NoReply
    /\ ws = "open"
    /\ sent = <<>>
    /\ fire_len = 0
    /\ early = <<>>
    /\ classified = NoClass

Running == tpc \in {"sleep", "generate", "send"}

\* send_loop awaits a Future that nothing resolves: it stops only when it is
\* cancelled as connect() ends.
send_loop == IF Running THEN "waiting" ELSE "cancelled"

\* A tenth of a second passes.
Tick ==
    /\ Running
    /\ since_last_user < IdleTicks \/ (tpc = "sleep" /\ sleep_left > 0)
    /\ since_last_user' = IF since_last_user < IdleTicks THEN since_last_user + 1
                                                         ELSE since_last_user
    /\ sleep_left' = IF tpc = "sleep" /\ sleep_left > 0 THEN sleep_left - 1 ELSE sleep_left
    /\ UNCHANGED <<message_history, pending_sentence_type, rpc, tpc, sentence_type,
                   reply, ws, sent, fire_len, early, classified, serverVars, lastCall>>

\* OnMessage that keeps only the newest three Turns of the history.
OnMessageTrimsHistory ==
    /\ rpc = "wait"
    /\ ws = "open"
    /\ NumUser < MaxUserMsgs
    /\ LET h == Append(message_history, UserTurn(NumUser + 1))
       IN message_history' = IF Len(h) > 3 THEN SubSeq(h, Len(h) - 2, Len(h)) ELSE h
    /\ early' = Append(early, since_last_user < IdleTicks)
    /\ since_last_user' = 0
    /\ rpc' = "classify"
    /\ classified' = InFlight
    /\ UNCHANGED <<pending_sentence_type, sleep_left, tpc, sentence_type, reply, ws,
                   sent, fire_len, serverVars, lastCall>>

\* recv_loop's `async for` yields a message and on_message runs to its
\* await: append the user Turn, stamp _last_user_ts, start the classifier.
OnMessage ==
    /\ rpc = "wait"
    /\ ws = "open"
    /\ NumUser < MaxUserMsgs
    /\ message_history' = Append(message_history, UserTurn(NumUser + 1))
    /\ early' = Append(early, since_last_user < IdleTicks)
    /\ since_last_user' = 0
    /\ rpc' = "classify"
    /\ classified' = InFlight
    /\ UNCHANGED <<pending_sentence_type, sleep_left, tpc, sentence_type, reply, ws,
                   sent, fire_len, serverVars, lastCall>>

\* run_in_executor(_classify_intent) returns: on_message stores the type
\* and returns to recv_loop, which waits for the next message.
ClassifyDone ==
    /\ rpc = "classify"
    /\ \E raw \in RawOutcomes :
          /\ pending_sentence_type' = ClassifyIntent(raw)
          /\ classified' = [raw |-> raw, key |-> ClassifyIntent(raw), fate |-> "pending"]
    /\ rpc' = "wait"
    /\ UNCHANGED <<message_history, since_last_user, sleep_left, tpc, sentence_type,
                   reply, ws, sent, fire_len, early, serverVars, lastCall>>

\* The agent's websocket closes.
WsClose ==
    /\ Running
    /\ ws = "open"
    /\ ws' = "closed"
    /\ UNCHANGED <<message_history, pending_sentence_type, since_last_user, sleep_left,
                   rpc, tpc, sentence_type, reply, sent, fire_len, early, classified,
                   serverVars, lastCall>>

\* recv_loop's `async for` on the closed websocket: the loop ends after a
\* clean close; otherwise ConnectionClosedError leaves recv_loop and gather,
\* connect() ends and asyncio.run cancels the tasks that are left.
RecvEnd ==
    /\ rpc = "wait"
    /\ ws = "closed"
    /\ Running
    /\ \/ rpc' = "ended" /\ tpc' = tpc
       \/ rpc' = "raised" /\ tpc' = "cancelled"
    /\ UNCHANGED <<message_history, pending_sentence_type, since_last_user, sleep_left,
                   sentence_type, reply, ws, sent, fire_len, early, classified,
                   serverVars, lastCall>>

\* What TalkWake leaves alone.
TalkWakeFrame ==
    UNCHANGED <<message_history, since_last_user, rpc, reply, ws, sent, early,
                serverVars, lastCall>>

TalkSleepAgain ==
    /\ sleep_left' = SleepTicks
    /\ UNCHANGED <<tpc, sentence_type, fire_len>>

\* `continue` with the pending type kept.
TalkContinue ==
    /\ TalkSleepAgain
    /\ UNCHANGED <<pending_sentence_type, classified>>

\* TalkDiscard that goes back to sleep with the pending type still stored.
TalkDiscardKeepsPending ==
    /\ TalkSleepAgain
    /\ UNCHANGED <<pending_sentence_type, classified>>

\* "We already talked, clear the pending flag", then `continue`.
TalkDiscard ==
    /\ TalkSleepAgain
    /\ pending_sentence_type' = "None"
    /\ classified' = Fate("discarded")

\* TalkFire that leaves the pending type in its slot.
TalkFireKeepsPending ==
    /\ sentence_type' = pending_sentence_type
    /\ pending_sentence_type' = pending_sentence_type
    /\ tpc' = "generate"
    /\ fire_len' = Len(message_history)
    /\ classified' = Fate("taken")
    /\ UNCHANGED sleep_left

\* Issue talk: take the pending type and start the generator.
TalkFire ==
    /\ sentence_type' = pending_sentence_type
    /\ pending_sentence_type' = "None"
    /\ tpc' = "generate"
    /\ fire_len' = Len(message_history)
    /\ classified' = Fate("taken")
    /\ UNCHANGED sleep_left

\* TalkWake that forgets the pending type when the user is not yet idle.
TalkWakeDropsEarly ==
    /\ tpc = "sleep"
    /\ sleep_left = 0
    /\ IF pending_sentence_type = "None"
         THEN TalkContinue
         ELSE IF LastRole = "assistant"
           THEN TalkDiscard
           ELSE IF since_last_user < IdleTicks
             THEN TalkDiscard
             ELSE TalkFire
    /\ TalkWakeFrame

\* TalkWake without the idle test.
TalkWakeNoIdleCheck ==
    /\ tpc = "sleep"
    /\ sleep_left = 0
    /\ IF pending_sentence_type = "None"
         THEN TalkContinue
         ELSE IF LastRole = "assistant"
           THEN TalkDiscard
           ELSE TalkFire
    /\ TalkWakeFrame

\* TalkWake without the "already replied" test.
TalkWakeNoRepliedCheck ==
    /\ tpc = "sleep"
    /\ sleep_left = 0
    /\ IF pending_sentence_type = "None"
         THEN TalkContinue
         ELSE IF since_last_user < IdleTicks
           THEN TalkContinue
           ELSE TalkFire
    /\ TalkWakeFrame

\* _talk_loop wakes from asyncio.sleep(0.3) and runs to its next await:
\* back to sleep through one of the three `continue`s, or issue talk.
TalkWake ==
    /\ tpc = "sleep"
    /\ sleep_left = 0
    /\ IF pending_sentence_type = "None"
         THEN TalkContinue
         ELSE IF LastRole = "assistant"
           THEN TalkDiscard
           ELSE IF since_last_user < IdleTicks
             THEN TalkContinue
             ELSE TalkFire
    /\ TalkWakeFrame

\* An exception leaves _talk_loop and gather: connect() ends and asyncio.run
\* cancels the tasks that are left.
TalkRaises ==
    /\ tpc' = "raised"
    /\ rpc' = IF rpc \in {"wait", "classify"} THEN "cancelled" ELSE rpc

\* GenerateDone that drops the round when the generator failed: nothing is
\* sent and the loop sleeps again.
GenerateDoneSkipsError ==
    /\ tpc = "generate"
    /\ \E outcome \in {"text", "raises"} :
          LET r == GenerateReply(sentence_type, outcome) IN
          IF outcome = "raises"
            THEN /\ reply' = r
                 /\ tpc' = "sleep"
                 /\ UNCHANGED <<sent, rpc>>
            ELSE /\ reply' = r
                 /\ IF ws = "open"
                      THEN /\ sent' = Append(sent, r)
                           /\ tpc' = "send"
                           /\ rpc' = rpc
                      ELSE /\ TalkRaises
                           /\ sent' = sent
    /\ UNCHANGED <<message_history, pending_sentence_type, since_last_user, sleep_left,
                   sentence_type, ws, fire_len, early, classified, serverVars, lastCall>>

\* run_in_executor(_generate_reply) returns and _talk_loop calls
\* ws.send(reply), which raises ConnectionClosed on a closed websocket.
GenerateDone ==
    /\ tpc = "generate"
    /\ \E outcome \in {"text", "raises"} :
          LET r == GenerateReply(sentence_type, outcome) IN
          /\ reply' = r
          /\ IF ws = "open"
               THEN /\ sent' = Append(sent, r)
                    /\ tpc' = "send"
                    /\ rpc' = rpc
               ELSE /\ TalkRaises
                    /\ sent' = sent
    /\ UNCHANGED <<message_history, pending_sentence_type, since_last_user, sleep_left,
                   sentence_type, ws, fire_len, early, classified, serverVars, lastCall>>

\* `await ws.send(reply)` returns: append the assistant Turn, print, and
\* sleep again; the locals of this round are dead.  If the websocket closed
\* while the send was suspended the send may raise instead.
SendDone ==
    /\ tpc = "send"
    /\ \/ /\ message_history' = Append(message_history, AssistantTurn(reply))
          /\ tpc' = "sleep"
          /\ sleep_left' = SleepTicks
          /\ rpc' = rpc
          /\ sentence_type' = "-"
          /\ reply' = NoReply
          /\ fire_len' = 0
       \/ /\ ws = "closed"
          /\ TalkRaises
          /\ UNCHANGED <<message_history, sleep_left, sentence_type, reply, fire_len>>
    /\ UNCHANGED <<pending_sentence_type, since_last_user, ws, sent, early, classified,
                   serverVars, lastCall>>

\* --------------------------------------------------------- specifications
Init == ServerInit /\ AgentInit

Next ==
    \E c \in Conns :
        \/ Connect(c)
        \/ Close(c)
        \/ Recv(c)
        \/ Resume(c)
        \/ StreamEnd(c)

Spec == Init /\ [][Next]_vars

ApiNext ==
    \E c \in Conns :
        \/ ApiRegister(c)
        \/ ApiUnregister(c)
        \/ ApiBroadcast(c)

ApiSpec == Init /\ [][ApiNext]_vars

AgentNext ==
    \/ Tick
    \/ OnMessage
    \/ ClassifyDone
    \/ WsClose
    \/ RecvEnd
    \/ TalkWake
    \/ GenerateDone
    \/ SendDone

AgentSpec == Init /\ [][AgentNext]_vars

\* The event loop runs every ready callback, time passes, and the executor
\* calls return.
AgentFair ==
    /\ AgentSpec
    /\ WF_vars(Tick)
    /\ WF_vars(ClassifyDone)
    /\ WF_vars(RecvEnd)
    /\ WF_vars(TalkWake)
    /\ WF_vars(GenerateDone)
    /\ WF_vars(SendDone)

\* ------------------------------------------------------------------ claims
Count(q, m) == Cardinality({i \in 1..Len(q) : q[i] = m})

\* This step ends the broadcast of handler c (it may also have begun it).
BroadcastEnds(c) == (hpc[c] = "bcast" \/ nread'[c] # nread[c]) /\ hpc'[c] # "bcast"
\* users when the broadcast that is running, or that this step begins, began.
StartUsers(c) == IF hpc[c] = "bcast" THEN snap[c] ELSE users
\* The iterator this step of c's broadcast starts from.
CurIter(c) == IF hpc[c] = "bcast" THEN it[c] ELSE NewIter(users)
\* In this step a send of c's broadcast raises.
SendFails(c) == exc[c] = "none" /\ exc'[c] = "ConnectionClosed"
\* After this step r is still registered and connected.
StillThere(r) == r \in users' /\ conn'[r] = "open"

\* C1: when a broadcast is over, the sender has not been sent the message,
\* and every other connection that was registered when the broadcast began
\* (and is still registered and connected) has been sent it exactly once.
C1_BroadcastExactlyOnce ==
    [][\A c \in Conns : BroadcastEnds(c) =>
          /\ Count(received'[c][c], nread'[c]) = 0
          /\ \A r \in StartUsers(c) \ {c} :
                StillThere(r) => Count(received'[r][c], nread'[c]) = 1]_vars

\* C5: when the send to one recipient fails, every other registered and
\* connected recipient has the message when the broadcast is over.
C5_FailureDoesNotAbortDelivery ==
    [][\A c \in Conns : SendFails(c) =>
          \A r \in users' \ {c} :
             conn'[r] = "open" => Count(received'[r][c], nread'[c]) = 1]_vars

\* C6: a failed send to a recipient does not end the sender's handler: the
\* sender's handler goes on and the sender stays registered.
C6_FailureStaysWithRecipient ==
    [][\A c \in Conns : SendFails(c) => hpc'[c] # "done" /\ c \in users']_vars

\* C7: the recipient whose send failed is not registered any more once
\* that broadcast is over.
C7_FailedRecipientUnregistered ==
    [][\A c \in Conns : SendFails(c) =>
          Min(Targets(users, CurIter(c), c)) \notin users']_vars

\* C8: unregister of a connection that is not registered raises nothing
\* and leaves users as it was.
C8_UnregisterAbsentIsNoOp ==
    (lastCall.op = "unregister" /\ lastCall.arg \notin lastCall.before)
        => (lastCall.raised = "none" /\ users = lastCall.before)

\* C9: a broadcast under which another handler registered or unregistered
\* ends without error and has sent the message to every connection that
\* was registered when it began and still is.
C9_MutationDoesNotCorruptBroadcast ==
    [][\A c \in Conns :
          (hpc[c] = "bcast" /\ hpc'[c] # "bcast" /\ users # snap[c] /\ ~SendFails(c)) =>
             /\ exc'[c] = "none"
             /\ \A r \in snap[c] \ {c} :
                   StillThere(r) => Count(received'[r][c], nread[c]) = 1]_vars

\* C10: a connection is in users exactly while its handler is between
\* register and exit, whatever way the handler exits, and the unregister
\* in `finally` never fails.
C10_GuaranteedRelease ==
    \A c \in Conns :
        /\ hpc[c] \in {"recv", "bcast"} => c \in users
        /\ hpc[c] \in {"init", "done"} => c \notin users
        /\ exc[c] # "KeyError"

\* Handlers have ended in each of the three ways: stream end, read error,
\* and an error raised by their broadcast.
C10_Witness ==
    /\ \E c \in Conns : hpc[c] = "done" /\ exc[c] = "none"
    /\ \E c \in Conns : hpc[c] = "done" /\ exc[c] = "ConnectionClosedError"
    /\ \E c \in Conns : hpc[c] = "done" /\ exc[c] \in {"RuntimeError", "ConnectionClosed"}
    /\ users = {}

AnsweredAfter(i) ==
    \E j \in (i + 1)..Len(message_history) : message_history[j].role = "assistant"
\* Every user Turn in the history has an assistant Turn after it.
AllAnswered == \A i \in Roles(message_history, "user") : AnsweredAfter(i)
\* The assistant Turns that answer user Turn i: those after it with no user
\* Turn in between.
AnswersTo(i) ==
    {j \in Roles(message_history, "assistant") :
        j > i /\ \A k \in (i + 1)..(j - 1) : message_history[k].role # "user"}

\* C2: while the connection stays open, again and again every user Turn
\* appended so far has an assistant Turn after it (so each one is
\* eventually followed by a reply), and no user Turn is answered by more
\* than one assistant Turn.
C2_ReplyOncePerUserTurn ==
    /\ []<>(AllAnswered \/ ws # "open")
    /\ [](\A i \in Roles(message_history, "user") : Cardinality(AnswersTo(i)) <= 1)

\* Two user Turns have been answered, each by its own reply.
C2_Witness ==
    /\ ws = "open"
    /\ Len(message_history) >= 5
    /\ message_history[2].role = "user" /\ message_history[3].role = "assistant"
    /\ message_history[4].role = "user" /\ message_history[5].role = "assistant"

AssistantAppended ==
    /\ Len(message_history') = Len(message_history) + 1
    /\ message_history'[Len(message_history')].role = "assistant"

\* C3: an assistant Turn is appended only when at least the idle threshold
\* has passed since the last user Turn, unless a user Turn was appended
\* after talk was issued.
C3_IdleLowerBound ==
    [][(AssistantAppended /\ Len(message_history) = fire_len)
          => since_last_user' >= IdleTicks]_vars

\* A reply has just been appended right after the user Turn it answers.
C3_Witness ==
    /\ LastRole = "assistant"
    /\ message_history[Len(message_history) - 1].role = "user"
    /\ since_last_user = IdleTicks
    /\ tpc = "sleep" /\ sleep_left = SleepTicks

\* Two user Turns so far, the second appended inside the idle window of
\* the first.
SecondCameEarly == NumUser = 2 /\ early[2]

\* C4: when the second user Turn came inside the idle window of the first
\* and no third follows, one assistant Turn is appended, and never two
\* replies are sent.
C4_OneReplyForTwoTurns ==
    /\ [](SecondCameEarly => NumAssistant <= 1 /\ Len(sent) <= 1)
    /\ (SecondCameEarly ~> (NumAssistant = 1 \/ NumUser > 2 \/ ws # "open"))

\* The one reply to the two Turns is in the history and the loop is idle.
C4_Witness ==
    /\ SecondCameEarly
    /\ NumAssistant = 1
    /\ LastRole = "assistant"
    /\ pending_sentence_type = "None"
    /\ tpc = "sleep"
    /\ ws = "open"

\* C11: once recv_loop is over, because the inbound stream ended or raised,
\* _talk_loop and send_loop eventually stop as well.
C11_LoopsStopAfterClose ==
    (rpc \in {"ended", "raised"}) ~> (~Running /\ send_loop = "cancelled")

\* This step is _talk_loop waking from its sleep.
TalkWakes ==
    /\ tpc = "sleep"
    /\ sleep_left = 0
    /\ (sleep_left' = SleepTicks \/ tpc' = "generate")

\* The history holds one user Turn and the classifier answered `new` for it.
OnlyTurnIsNew == NumUser = 1 /\ classified.raw = "new"

\* C12: with one user Turn classified `new` and no further input, a loop
\* tick with the idle threshold elapsed takes `new` and empties the slot;
\* from then on the slot stays empty, at most one reply is sent and at most
\* one assistant Turn appended, both there once the loop sleeps again; and
\* the reply does come while the websocket stays open.
C12_SingleNewTurnOneReply ==
    /\ [][(OnlyTurnIsNew /\ pending_sentence_type = "new" /\ TalkWakes
             /\ since_last_user >= IdleTicks)
          => (tpc' = "generate" /\ sentence_type' = "new"
                /\ pending_sentence_type' = "None")]_vars
    /\ []((OnlyTurnIsNew /\ classified.fate = "taken")
          => /\ pending_sentence_type = "None"
             /\ Len(sent) <= 1
             /\ NumAssistant <= 1
             /\ (tpc = "sleep" => (Len(sent) = 1 /\ NumAssistant = 1
                                     /\ LastRole = "assistant")))
    /\ ((OnlyTurnIsNew /\ classified.fate = "pending")
          ~> ((Len(sent) = 1 /\ NumAssistant = 1) \/ NumUser > 1 \/ ws # "open"))

\* The one reply to the one `new` Turn has been sent and appended, the slot
\* is empty and the loop sleeps.
C12_Witness ==
    /\ OnlyTurnIsNew
    /\ classified.fate = "taken"
    /\ Len(sent) = 1
    /\ NumAssistant = 1
    /\ pending_sentence_type = "None"
    /\ tpc = "sleep"
    /\ ws = "open"

\* The classifier call for the newest user Turn raised, or gave a key that
\* is not in SENTENCE_TYPES.
ClassifyFailed == classified.raw \in {"raises", "other"}

\* C13: a classification that fails or is not recognised comes back as
\* `ack` and is stored as the pending type; a loop tick after a user Turn
\* with the idle threshold elapsed takes `ack` and issues talk; and the
\* reply is appended unless another message or a close comes first.
C13_FailedClassificationIsAck ==
    /\ [](ClassifyFailed => classified.key = "ack")
    /\ []((ClassifyFailed /\ classified.fate = "pending")
          => pending_sentence_type = "ack")
    /\ [][(ClassifyFailed /\ classified.fate = "pending" /\ TalkWakes
             /\ LastRole = "user" /\ since_last_user >= IdleTicks)
          => (tpc' = "generate" /\ sentence_type' = "ack")]_vars
    /\ ((ClassifyFailed /\ classified.fate = "pending")
          ~> (LastRole = "assistant" \/ ~ClassifyFailed \/ ws # "open"))

\* The classifier raised, `ack` was taken by the loop and the reply to that
\* Turn is in the history.
C13_Witness ==
    /\ classified.raw = "raises"
    /\ classified.fate = "taken"
    /\ LastRole = "assistant"
    /\ sent # <<>>
    /\ tpc = "sleep"

\* What _generate_reply returns when the request raises.
ErrorReply == GenerateReply("ack", "raises")

\* C14: when the generator fails, its error-marked string is sent over the
\* open websocket, and when that send returns it is appended as an
\* assistant Turn and the loop sleeps again, the pending type untouched;
\* the append comes unless the websocket closes.  So a sleeping loop has
\* appended every reply it sent, and has replied whenever it took a type.
C14_FailedGenerationStillReplies ==
    /\ [][(tpc = "generate" /\ reply' = ErrorReply /\ ws = "open")
          => (sent' = Append(sent, ErrorReply) /\ tpc' = "send")]_vars
    /\ [][(tpc = "send" /\ reply = ErrorReply /\ tpc' = "sleep")
          => /\ message_history' = Append(message_history, AssistantTurn(ErrorReply))
             /\ sleep_left' = SleepTicks
             /\ pending_sentence_type' = pending_sentence_type]_vars
    /\ ((tpc = "send" /\ reply = ErrorReply) ~> (tpc = "sleep" \/ ws # "open"))
    /\ []((tpc = "sleep" /\ ws = "open") => Len(sent) = NumAssistant)
    /\ []((tpc = "sleep" /\ classified.fate = "taken") => LastRole = "assistant")

\* The error-marked string was sent and is the last Turn of the history,
\* and the loop sleeps.
C14_Witness ==
    /\ sent # <<>>
    /\ sent[Len(sent)] = ErrorReply
    /\ message_history[Len(message_history)] = AssistantTurn(ErrorReply)
    /\ tpc = "sleep"
    /\ ws = "open"

\* C15: no error of a round of _talk_loop (classification, generation or
\* the send of the reply) leaves _talk_loop: it never ends with an exception.
C15_TalkLoopNeverRaises == tpc # "raised"

\* C16: the messages a recipient has been sent from one sender are in the
\* order the sender's handler read them: if S sends m1 before m2, every
\* recipient sent both was sent m1 before m2.
C16_PerSenderOrder ==
    \A r \in Conns, s \in Conns :
        \A i \in 1..Len(received[r][s]), j \in 1..Len(received[r][s]) :
            i < j => received[r][s][i] < received[r][s][j]

\* A recipient has been sent the first two messages of one sender.
C16_Witness ==
    \E r \in Conns, s \in Conns : r # s /\ received[r][s] = <<1, 2>>

\* C17: when _talk_loop issues talk, the classification of the newest user
\* Turn of the history is done, and the type taken is that classification.
C17_TakesNewestClassification ==
    [][(TalkWakes /\ tpc' = "generate")
       => /\ classified.key \in SENTENCE_TYPES
          /\ sentence_type' = classified.key
          /\ classified.fate = "pending"]_vars

\* C18: the first Turn of the history is always the system Turn, and every
\* step leaves the history as it was or adds one Turn at its end, the
\* Turns before it and their order unchanged.
C18_HistoryAppendOnly ==
    /\ [](message_history # <<>> /\ message_history[1] = SystemTurn)
    /\ [][\/ message_history' = message_history
          \/ /\ Len(message_history') = Len(message_history) + 1
             /\ SubSeq(message_history', 1, Len(message_history)) = message_history]_vars

\* The history has grown by a user Turn, a reply and another user Turn
\* behind the system Turn.
C18_Witness ==
    /\ Len(message_history) = 4
    /\ message_history[1] = SystemTurn
    /\ message_history[2] = UserTurn(1)
    /\ message_history[3].role = "assistant"
    /\ message_history[4] = UserTurn(2)

\* C19: a wake of _talk_loop that finds a pending type while the last Turn
\* of the history is an assistant Turn clears the slot, sends nothing,
\* appends nothing and sleeps again: a stale pending type does not outlive
\* one tick.
C19_StalePendingCleared ==
    [][(TalkWakes /\ pending_sentence_type # "None" /\ LastRole = "assistant")
       => /\ pending_sentence_type' = "None"
          /\ sent' = sent
          /\ message_history' = message_history
          /\ tpc' = "sleep"]_vars

\* The type classified for the newest user Turn was cleared by the loop
\* because the reply was already there.
C19_Witness ==
    /\ classified.fate = "discarded"
    /\ LastRole = "assistant"
    /\ pending_sentence_type = "None"
    /\ tpc = "sleep"

\* C20: every assistant Turn of the history comes right after a user Turn,
\* so no two assistant Turns are adjacent, and there are never more
\* assistant Turns than user Turns.
C20_AssistantFollowsUser ==
    /\ \A i \in Roles(message_history, "assistant") :
          i > 1 /\ message_history[i - 1].role = "user"
    /\ NumAssistant <= NumUser

\* Two user Turns and then the one reply to both.
C20_Witness ==
    /\ Len(message_history) = 4
    /\ message_history[2].role = "user"
    /\ message_history[3].role = "user"
    /\ message_history[4].role = "assistant"

====
